---- MODULE Spec2Model ----
(***************************************************************************)
(* Model of pkginfobot.py: TelegramBotClient.bot_api (the transport with   *)
(* its retry loop), TelegramBotClient.serve (the long-poll loop that       *)
(* fetches updates, advances the offset and dispatches callbacks),         *)
(* TelegramBotClient.__init__, TelegramBotClient.parse_cmd and             *)
(* message_handler.                                                        *)
(***************************************************************************)
EXTENDS Integers, Sequences, FiniteSets, TLC

\* ---------------------------------------------------------------- bounds
MaxId == 3            \* update identifiers are 1..MaxId
MaxBatch == 2         \* longest batch getUpdates returns
MaxFetches == 3       \* getUpdates calls made in one run of serve
MaxRetryAfter == 2    \* largest retry_after hint of the service
MaxTextLen == 6       \* longest message text drawn from Alphabet

\* ------------------------------------------------------ program constants
None == -1            \* self.offset = None (unset cursor)
Attempts == 3         \* for att in range(3)

Kinds == {"message", "edited_message"}
Keys == {"update_id"} \cup Kinds

\* An update of the service: its identifier and its one payload field.
Update == [update_id : 1..MaxId, kind : Kinds]

\* upd.items(): the identifier first, then the payload field.
Items(upd) == <<"update_id", upd.kind>>

RECURSIVE Increasing(_)
Increasing(s) ==
    IF Len(s) < 2 THEN TRUE
    ELSE s[1].update_id < s[2].update_id /\ Increasing(Tail(s))

SeqsUpTo(S, n) == UNION {[1..m -> S] : m \in 0..n}

\* The result of getUpdates(offset=o): updates in increasing identifier
\* order, none below the requested offset.
Batches(o) ==
    {b \in SeqsUpTo(Update, MaxBatch) :
        /\ Increasing(b)
        /\ \A n \in 1..Len(b) : o = None \/ b[n].update_id >= o}

\* ret['parameters'] of a failure response: absent or empty, other keys
\* only, or a retry_after hint.
Parameters ==
    {{}, {<<"migrate_to_chat_id", 1>>}}
        \cup {{<<"retry_after", n>>} : n \in 1..MaxRetryAfter}

HasRetryAfter(p) == \E kv \in p : kv[1] = "retry_after"
RetryAfter(p) == (CHOOSE kv \in p : kv[1] = "retry_after")[2]

\* The decoded envelope of a response: ok with a result, or not ok with a
\* description, an error code and optional parameters.
Success(b) ==
    [ok |-> TRUE, result |-> b, description |-> "", error_code |-> 0,
     parameters |-> {}]
Failure(p) ==
    [ok |-> FALSE, result |-> <<>>,
     description |-> IF HasRetryAfter(p) THEN "Too Many Requests"
                     ELSE "Bad Request",
     error_code |-> IF HasRetryAfter(p) THEN 429 ELSE 400,
     parameters |-> p]

NoOutcome ==
    [kind |-> "none", result |-> <<>>, description |-> "", error_code |-> 0,
     parameters |-> {}]
Returned(b) ==
    [kind |-> "result", result |-> b, description |-> "", error_code |-> 0,
     parameters |-> {}]

\* variant: the exception does not keep the parameters of the response
BotAPIFailed_NoParameters(r) ==
    [kind |-> "BotAPIFailed", result |-> <<>>, description |-> r.description,
     error_code |-> r.error_code, parameters |-> {}]

\* BotAPIFailed(ret): description, error_code and parameters of the response
BotAPIFailed(r) ==
    [kind |-> "BotAPIFailed", result |-> <<>>, description |-> r.description,
     error_code |-> r.error_code, parameters |-> r.parameters]

\* a transport-level exception (connection error, timeout, undecodable body)
TransportError ==
    [kind |-> "Exception", result |-> <<>>, description |-> "",
     error_code |-> 0, parameters |-> {}]

\* the handle of the client when it is given to the constructor
BotName == <<"b">>

\* parse_cmd's results: (None, None) and (cmd, expr)
NoCommand == [none |-> TRUE, cmd |-> <<>>, expr |-> <<>>]
Command(c, e) == [none |-> FALSE, cmd |-> c, expr |-> e]

VARIABLES
    offset,        \* self.offset
    run,           \* self.run
    kwargs,        \* names registered in serve(**kwargs)
    pc,            \* position of serve
    updates,       \* local variable updates of serve
    updatesBound,  \* whether updates has been assigned
    i, j,          \* position of the two dispatch loops
    att,           \* loop variable att of bot_api
    attempts,      \* HSession.post calls made by the current bot_api call
    delays,        \* time.sleep arguments of the current bot_api call
    outcome,       \* how the latest bot_api('getUpdates') call ended
    reqOffset,     \* offset= parameter of the latest getUpdates
    slept,         \* time.sleep(retry_after) total since the latest fetch ended
    paused,        \* time.sleep(.2) calls since the latest fetch ended
    calls,         \* callbacks invoked since the latest batch was received
    nfetch,        \* getUpdates calls issued
    exc,           \* the exception that left serve or the constructor
    ret,           \* <<ret>> once the current bot_api call decoded a response
    stopAt,        \* number of the callback invocation that set run to False
    username,      \* self.username
    argUsername,   \* username argument of the constructor (<<>> when omitted)
    lookups,       \* bot_api('getMe') calls made by the constructor
    text,          \* msg['text'] of the message given to message_handler
    parsed,        \* (cmd, expr) returned by parse_cmd
    hpc,           \* position of message_handler
    reply,         \* local variable ret of message_handler
    hout,          \* how the command handler called by message_handler ended
    sends          \* texts passed to cli.sendMessage

ctorVars == <<argUsername, lookups>>
msgVars == <<text, parsed, hpc, reply, hout, sends>>

vars == <<offset, run, kwargs, pc, updates, updatesBound, i, j, att, attempts,
          delays, outcome, reqOffset, slept, paused, calls, nfetch, exc, ret,
          stopAt, username, ctorVars, msgVars>>

Init ==
    /\ offset = None
    /\ run = TRUE
    /\ kwargs \in SUBSET Keys
    /\ pc = "loop"
    /\ updates = <<>>
    /\ updatesBound = FALSE
    /\ i = 1
    /\ j = 1
    /\ att = 0
    /\ attempts = 0
    /\ delays = <<>>
    /\ outcome = NoOutcome
    /\ reqOffset = None
    /\ slept = 0
    /\ paused = 0
    /\ calls = <<>>
    /\ nfetch = 0
    /\ exc = "none"
    /\ ret = <<>>
    /\ stopAt = 0
    /\ username = BotName
    /\ argUsername = BotName
    /\ lookups = 0
    /\ text = <<>>
    /\ parsed = NoCommand
    /\ hpc = "idle"
    /\ reply = ""
    /\ hout = "none"
    /\ sends = <<>>

\* ------------------------------------------------------------- bot_api
ShouldRetry(a) == a < 1
Delay(a) == (a + 1) * 2

\* while self.run: ... self.bot_api('getUpdates', offset=self.offset, ...)
LoopEnter ==
    /\ pc = "loop"
    /\ run
    /\ nfetch < MaxFetches
    /\ pc' = "bot_api"
    /\ att' = 0
    /\ attempts' = 0
    /\ delays' = <<>>
    /\ reqOffset' = offset
    /\ nfetch' = nfetch + 1
    /\ UNCHANGED <<offset, run, kwargs, updates, updatesBound, i, j, outcome,
                   slept, paused, calls, exc>>
    /\ ret' = <<>>
    /\ UNCHANGED <<stopAt, username, ctorVars, msgVars>>

\* while self.run: is false, serve returns
LoopExit ==
    /\ pc = "loop"
    /\ ~run
    /\ pc' = "returned"
    /\ UNCHANGED <<offset, run, kwargs, updates, updatesBound, i, j, att,
                   attempts, delays, outcome, reqOffset, slept, paused, calls,
                   nfetch, exc>>
    /\ UNCHANGED <<ret, stopAt, username, ctorVars, msgVars>>

\* the post and the decoding succeed, ret['ok'] is true
PostOkResult ==
    /\ pc = "bot_api"
    /\ \E b \in Batches(reqOffset) :
          /\ ret' = <<Success(b)>>
          /\ outcome' = Returned(Success(b).result)
    /\ attempts' = attempts + 1
    /\ pc' = "api_done"
    /\ slept' = 0
    /\ paused' = 0
    /\ UNCHANGED <<offset, run, kwargs, updates, updatesBound, i, j, att,
                   delays, reqOffset, calls, nfetch, exc>>
    /\ UNCHANGED <<stopAt, username, ctorVars, msgVars>>

\* the post and the decoding succeed, ret['ok'] is false
PostNotOk ==
    /\ pc = "bot_api"
    /\ \E p \in Parameters :
          /\ ret' = <<Failure(p)>>
          /\ outcome' = BotAPIFailed(Failure(p))
    /\ attempts' = attempts + 1
    /\ pc' = "api_done"
    /\ slept' = 0
    /\ paused' = 0
    /\ UNCHANGED <<offset, run, kwargs, updates, updatesBound, i, j, att,
                   delays, reqOffset, calls, nfetch, exc>>
    /\ UNCHANGED <<stopAt, username, ctorVars, msgVars>>

\* the post or the decoding raises
PostFail ==
    /\ pc = "bot_api"
    /\ attempts' = attempts + 1
    /\ IF ShouldRetry(att) /\ att + 1 < Attempts
       THEN /\ delays' = Append(delays, Delay(att))
            /\ att' = att + 1
            /\ UNCHANGED <<pc, outcome, slept, paused>>
       ELSE /\ delays' = IF ShouldRetry(att)
                         THEN Append(delays, Delay(att)) ELSE delays
            /\ outcome' = TransportError
            /\ pc' = "api_done"
            /\ slept' = 0
            /\ paused' = 0
            /\ UNCHANGED att
    /\ UNCHANGED <<offset, run, kwargs, updates, updatesBound, i, j,
                   reqOffset, calls, nfetch, exc>>
    /\ UNCHANGED <<ret, stopAt, username, ctorVars, msgVars>>

\* --------------------------------------------------------------- serve
\* variant: the cursor is taken from the first update of the batch
NewOffset_FirstUpdate(u) == u[1].update_id + 1

\* self.offset = updates[-1]["update_id"] + 1
NewOffset(u) == u[Len(u)].update_id + 1

\* variant: the dispatch starts without the cursor having been advanced
AfterTry_CursorNotAdvanced(u, bound) ==
    IF ~bound
    THEN /\ pc' = "raised"
         /\ exc' = "UnboundLocalError"
         /\ UNCHANGED <<offset, i, j>>
    ELSE IF u = <<>>
    THEN /\ pc' = "loop"
         /\ UNCHANGED <<offset, i, j, exc>>
    ELSE /\ pc' = "dispatch"
         /\ i' = 1
         /\ j' = 1
         /\ UNCHANGED <<offset, exc>>

\* if not updates: continue / self.offset = ... / for upd in updates:
AfterTry(u, bound) ==
    IF ~bound
    THEN /\ pc' = "raised"
         /\ exc' = "UnboundLocalError"
         /\ UNCHANGED <<offset, i, j>>
    ELSE IF u = <<>>
    THEN /\ pc' = "loop"
         /\ UNCHANGED <<offset, i, j, exc>>
    ELSE /\ offset' = NewOffset(u)
         /\ pc' = "dispatch"
         /\ i' = 1
         /\ j' = 1
         /\ UNCHANGED exc

\* updates = self.bot_api(...) returned
FetchReturned ==
    /\ pc = "api_done"
    /\ outcome.kind = "result"
    /\ updates' = outcome.result
    /\ updatesBound' = TRUE
    /\ calls' = <<>>
    /\ AfterTry(outcome.result, TRUE)
    /\ UNCHANGED <<run, kwargs, att, attempts, delays, outcome, reqOffset,
                   slept, paused, nfetch>>
    /\ UNCHANGED <<ret, stopAt, username, ctorVars, msgVars>>

\* except BotAPIFailed as ex: (no continue: control reaches "if not updates")
CatchBotAPIFailed ==
    /\ pc = "api_done"
    /\ outcome.kind = "BotAPIFailed"
    /\ slept' = IF HasRetryAfter(outcome.parameters)
                THEN slept + RetryAfter(outcome.parameters) ELSE slept
    /\ AfterTry(updates, updatesBound)
    /\ UNCHANGED <<run, kwargs, updates, updatesBound, att, attempts, delays,
                   outcome, reqOffset, paused, calls, nfetch>>
    /\ UNCHANGED <<ret, stopAt, username, ctorVars, msgVars>>

\* variant: the handler forgets the cursor after a failed fetch
CatchException_ResetsCursor ==
    /\ pc = "api_done"
    /\ outcome.kind = "Exception"
    /\ pc' = "loop"
    /\ offset' = None
    /\ UNCHANGED <<run, kwargs, updates, updatesBound, i, j, att, attempts,
                   delays, outcome, reqOffset, slept, paused, calls, nfetch,
                   exc>>
    /\ UNCHANGED <<ret, stopAt, username, ctorVars, msgVars>>

\* except Exception: logging.exception(...); continue
CatchException ==
    /\ pc = "api_done"
    /\ outcome.kind = "Exception"
    /\ pc' = "loop"
    /\ UNCHANGED <<offset, run, kwargs, updates, updatesBound, i, j, att,
                   attempts, delays, outcome, reqOffset, slept, paused, calls,
                   nfetch, exc>>
    /\ UNCHANGED <<ret, stopAt, username, ctorVars, msgVars>>

CurKey == Items(updates[i])[j]

\* elif kwargs.get(k):
Registered(k) == k \in kwargs

\* variant: the identifier field is not excluded from dispatch
Invokes_NoIdentifierCheck(k) == Registered(k)

\* the key whose callback serve invokes
Invokes(k) == k # "update_id" /\ Registered(k)

Invocation == [update_id |-> updates[i].update_id, kind |-> CurKey]

\* variant: the dispatch loops are left as soon as run is false
Advance_StopsWhenNotRunning ==
    IF ~run
    THEN /\ pc' = "pause"
         /\ UNCHANGED <<i, j>>
    ELSE IF j < Len(Items(updates[i]))
    THEN /\ j' = j + 1
         /\ UNCHANGED <<i, pc>>
    ELSE IF i < Len(updates)
    THEN /\ i' = i + 1
         /\ j' = 1
         /\ UNCHANGED pc
    ELSE /\ pc' = "pause"
         /\ UNCHANGED <<i, j>>

\* next (k, v) of upd.items(), next upd of updates, or the end of the batch
Advance ==
    IF j < Len(Items(updates[i]))
    THEN /\ j' = j + 1
         /\ UNCHANGED <<i, pc>>
    ELSE IF i < Len(updates)
    THEN /\ i' = i + 1
         /\ j' = 1
         /\ UNCHANGED pc
    ELSE /\ pc' = "pause"
         /\ UNCHANGED <<i, j>>

\* if k == 'update_id': continue
SkipIdentifier ==
    /\ pc = "dispatch"
    /\ CurKey = "update_id"
    /\ ~Invokes(CurKey)
    /\ Advance
    /\ UNCHANGED <<offset, run, kwargs, updates, updatesBound, att, attempts,
                   delays, outcome, reqOffset, slept, paused, calls, nfetch,
                   exc>>
    /\ UNCHANGED <<ret, stopAt, username, ctorVars, msgVars>>

\* kwargs.get(k) is None: nothing is called
SkipUnregistered ==
    /\ pc = "dispatch"
    /\ CurKey # "update_id"
    /\ ~Invokes(CurKey)
    /\ Advance
    /\ UNCHANGED <<offset, run, kwargs, updates, updatesBound, att, attempts,
                   delays, outcome, reqOffset, slept, paused, calls, nfetch,
                   exc>>
    /\ UNCHANGED <<ret, stopAt, username, ctorVars, msgVars>>

\* kwargs[k](self, v) returns
CallbackReturns ==
    /\ pc = "dispatch"
    /\ Invokes(CurKey)
    /\ calls' = Append(calls, Invocation)
    /\ Advance
    /\ UNCHANGED <<offset, run, kwargs, updates, updatesBound, att, attempts,
                   delays, outcome, reqOffset, slept, paused, nfetch, exc>>
    /\ UNCHANGED <<ret, stopAt, username, ctorVars, msgVars>>

\* kwargs[k](self, v) sets self.run = False and returns
CallbackStops ==
    /\ pc = "dispatch"
    /\ Invokes(CurKey)
    /\ run
    /\ calls' = Append(calls, Invocation)
    /\ run' = FALSE
    /\ Advance
    /\ UNCHANGED <<offset, kwargs, updates, updatesBound, att, attempts,
                   delays, outcome, reqOffset, slept, paused, nfetch, exc>>
    /\ stopAt' = Len(calls) + 1
    /\ UNCHANGED <<ret, username, ctorVars, msgVars>>

\* kwargs[k](self, v) raises: the exception leaves serve
CallbackRaises ==
    /\ pc = "dispatch"
    /\ Invokes(CurKey)
    /\ calls' = Append(calls, Invocation)
    /\ pc' = "raised"
    /\ exc' = "callback"
    /\ UNCHANGED <<offset, run, kwargs, updates, updatesBound, i, j, att,
                   attempts, delays, outcome, reqOffset, slept, paused, nfetch>>
    /\ UNCHANGED <<ret, stopAt, username, ctorVars, msgVars>>

\* time.sleep(.2)
Pause ==
    /\ pc = "pause"
    /\ paused' = paused + 1
    /\ pc' = "loop"
    /\ UNCHANGED <<offset, run, kwargs, updates, updatesBound, i, j, att,
                   attempts, delays, outcome, reqOffset, slept, calls, nfetch,
                   exc>>
    /\ UNCHANGED <<ret, stopAt, username, ctorVars, msgVars>>

\* a collaborator sets self.run = False while serve is running
RequestStop ==
    /\ pc \notin {"returned", "raised", "new", "getMe"}
    /\ run
    /\ run' = FALSE
    /\ UNCHANGED <<offset, kwargs, pc, updates, updatesBound, i, j, att,
                   attempts, delays, outcome, reqOffset, slept, paused, calls,
                   nfetch, exc>>
    /\ UNCHANGED <<ret, stopAt, username, ctorVars, msgVars>>

\* the steps of serve in which every fetch and every callback returns
ServeStep ==
    \/ LoopEnter
    \/ LoopExit
    \/ PostOkResult
    \/ PostNotOk
    \/ PostFail
    \/ FetchReturned
    \/ CatchBotAPIFailed
    \/ CatchException
    \/ SkipIdentifier
    \/ SkipUnregistered
    \/ CallbackReturns
    \/ CallbackStops
    \/ Pause

Next ==
    \/ ServeStep
    \/ CallbackRaises
    \/ RequestStop

Spec == Init /\ [][Next]_vars

\* serve with callbacks that return, scheduled until it leaves the loop
NextReturning ==
    \/ ServeStep
    \/ RequestStop

LiveSpec == Init /\ [][NextReturning]_vars /\ WF_vars(ServeStep)

\* ------------------------------------------------------------ parse_cmd
\* Texts are sequences of characters; a character is a one-symbol string.
NBSP == "nbsp"                          \* '\xa0'
Whitespace == {" ", NBSP, "\t", "\n"}   \* what str.strip() removes

RECURSIVE LStrip(_)
LStrip(s) ==
    IF s # <<>> /\ s[1] \in Whitespace THEN LStrip(Tail(s)) ELSE s

RECURSIVE RStrip(_)
RStrip(s) ==
    IF s # <<>> /\ s[Len(s)] \in Whitespace
    THEN RStrip(SubSeq(s, 1, Len(s) - 1)) ELSE s

\* text.strip()
Strip(s) == RStrip(LStrip(s))

\* .replace('\xa0', ' ')
Replace(s) == [n \in 1..Len(s) |-> IF s[n] = NBSP THEN " " ELSE s[n]]

Positions(s, c) == {n \in 1..Len(s) : s[n] = c}
First(S) == CHOOSE n \in S : \A m \in S : n <= m
Last(S) == CHOOSE n \in S : \A m \in S : n >= m

\* variant: split(' ') without the limit, every space separates
Split1_EverySpace(s) ==
    IF Positions(s, " ") = {} THEN <<s>>
    ELSE LET a == First(Positions(s, " "))
             r == SubSeq(s, a + 1, Len(s))
         IN  <<SubSeq(s, 1, a - 1),
               IF Positions(r, " ") = {} THEN r
               ELSE SubSeq(r, 1, First(Positions(r, " ")) - 1)>>

\* .split(' ', 1)
Split1(s) ==
    IF Positions(s, " ") = {} THEN <<s>>
    ELSE LET a == First(Positions(s, " "))
         IN  <<SubSeq(s, 1, a - 1), SubSeq(s, a + 1, Len(s))>>

\* .rsplit('@', 1)
RSplit1(s) ==
    IF Positions(s, "@") = {} THEN <<s>>
    ELSE LET a == Last(Positions(s, "@"))
         IN  <<SubSeq(s, 1, a - 1), SubSeq(s, a + 1, Len(s))>>

\* variant: the marker is not looked at
NotMarked_LengthOnly(head) == Len(head) < 2

\* variant: a head of one character is long enough
NotMarked_ShortAccepted(head) == Len(head) < 1 \/ head[1] # "/"

\* len(cmd[0]) < 2 or cmd[0][0] != '/'
NotMarked(head) == Len(head) < 2 \/ head[1] # "/"

\* variant: the handle suffix is not compared
OtherHandle_Ignored(cmd, name) == FALSE

\* len(cmd) > 1 and cmd[-1] != self.username
OtherHandle(cmd, name) == Len(cmd) > 1 /\ cmd[Len(cmd)] # name

parse_cmd(name, txt) ==
    LET t == Split1(Replace(Strip(txt)))
        cmd == RSplit1(t[1])
    IN  IF t = <<>> THEN NoCommand
        ELSE IF NotMarked(cmd[1]) THEN NoCommand
        ELSE IF OtherHandle(cmd, name) THEN NoCommand
        ELSE Command(Tail(cmd[1]), IF Len(t) > 1 THEN t[2] ELSE <<>>)

\* -------------------------------------------------------- message_handler
pkgver == <<"p", "k", "g", "v", "e", "r">>
search == <<"s", "e", "a", "r", "c", "h">>
getupdreq == <<"g", "e", "t", "u", "p", "d", "r", "e", "q">>
start == <<"s", "t", "a", "r", "t">>

\* the keys of cmds
cmds == {pkgver, search, getupdreq, start}

Alphabet == {"/", "@", " ", NBSP, "a", "b"}

\* messages with the verbs of cmds, and with whitespace other than spaces
MessageTexts ==
    {<<"/">> \o c \o e :
        c \in cmds \cup {pkgver \o <<"@", "b">>, pkgver \o <<"@", "a">>},
        e \in {<<>>, <<" ">>, <<" ", "a">>, <<" ", "a", NBSP, "b">>}}
      \cup {<<"\t", "/", "a">>, <<"/", "a", "\t", "b">>, <<"/", "a", "\n">>}

\* msg.get('text', '')
Texts == SeqsUpTo(Alphabet, MaxTextLen) \cup MessageTexts

\* the handle of the client
Handles == {BotName, <<"a", "b">>}

CmdInit ==
    /\ offset = None
    /\ run = TRUE
    /\ kwargs = {"message"}
    /\ pc = "loop"
    /\ updates = <<>>
    /\ updatesBound = FALSE
    /\ i = 1
    /\ j = 1
    /\ att = 0
    /\ attempts = 0
    /\ delays = <<>>
    /\ outcome = NoOutcome
    /\ reqOffset = None
    /\ slept = 0
    /\ paused = 0
    /\ calls = <<>>
    /\ nfetch = 0
    /\ exc = "none"
    /\ ret = <<>>
    /\ stopAt = 0
    /\ username \in Handles
    /\ argUsername = username
    /\ lookups = 0
    /\ text \in Texts
    /\ parsed = NoCommand
    /\ hpc = "idle"
    /\ reply = ""
    /\ hout = "none"
    /\ sends = <<>>

serveVars == <<offset, run, kwargs, pc, updates, updatesBound, i, j, att,
               attempts, delays, outcome, reqOffset, slept, paused, calls,
               nfetch, exc, ret, stopAt>>

\* msgtext = msg.get('text', ''); cmd, expr = cli.parse_cmd(msgtext)
MessageParse ==
    /\ hpc = "idle"
    /\ parsed' = parse_cmd(username, text)
    /\ hpc' = "parsed"
    /\ UNCHANGED <<serveVars, username, ctorVars, text, reply, hout, sends>>

\* ret = "Failed to fetch data. Please try again later."
Fallback == "Failed to fetch data. Please try again later."

\* cmd_pkgver and cmd_search return None for an empty package name, the
\* handler of start always returns None
ReturnsNothing(c, e) ==
    c = start \/ (c \in {pkgver, search} /\ Strip(e) = <<>>)

\* what cmds[cmd](cli, msg, expr) may return: the other paths query the
\* package API and return a text, possibly an empty one
HandlerResults(c, e) == IF ReturnsNothing(c, e) THEN {""} ELSE {"", "reply"}

\* if not cmd: return
NotACommand ==
    /\ hpc = "parsed"
    /\ parsed.none \/ parsed.cmd = <<>>
    /\ hpc' = "done"
    /\ UNCHANGED <<serveVars, username, ctorVars, text, parsed, reply, hout,
                   sends>>

\* cmd is not in cmds: message_handler returns
UnknownVerb ==
    /\ hpc = "parsed"
    /\ ~parsed.none
    /\ parsed.cmd # <<>>
    /\ parsed.cmd \notin cmds
    /\ hpc' = "done"
    /\ UNCHANGED <<serveVars, username, ctorVars, text, parsed, reply, hout,
                   sends>>

\* ret = cmds[cmd](cli, msg, expr) returns; if not ret: return
HandlerReturns ==
    /\ hpc = "parsed"
    /\ ~parsed.none
    /\ parsed.cmd \in cmds
    /\ \E r \in HandlerResults(parsed.cmd, parsed.expr) :
          /\ reply' = r
          /\ hpc' = IF r = "" THEN "done" ELSE "send"
    /\ hout' = "returned"
    /\ UNCHANGED <<serveVars, username, ctorVars, text, parsed, sends>>

\* variant: the handler is called outside the try
HandlerRaises_NotCaught ==
    /\ hpc = "parsed"
    /\ ~parsed.none
    /\ parsed.cmd \in cmds
    /\ ~ReturnsNothing(parsed.cmd, parsed.expr)
    /\ hout' = "raised"
    /\ hpc' = "escaped"
    /\ UNCHANGED <<serveVars, username, ctorVars, text, parsed, reply, sends>>

\* cmds[cmd](cli, msg, expr) raises: except Exception sets the fallback text
HandlerRaises ==
    /\ hpc = "parsed"
    /\ ~parsed.none
    /\ parsed.cmd \in cmds
    /\ ~ReturnsNothing(parsed.cmd, parsed.expr)
    /\ hout' = "raised"
    /\ reply' = Fallback
    /\ hpc' = IF Fallback = "" THEN "done" ELSE "send"
    /\ UNCHANGED <<serveVars, username, ctorVars, text, parsed, sends>>

\* cli.sendMessage(..., text=ret, ...) returns
SendOk ==
    /\ hpc = "send"
    /\ sends' = Append(sends, [text |-> reply, delivered |-> TRUE])
    /\ hpc' = "done"
    /\ UNCHANGED <<serveVars, username, ctorVars, text, parsed, reply, hout>>

\* cli.sendMessage(...) raises: except Exception logs it
SendFails ==
    /\ hpc = "send"
    /\ sends' = Append(sends, [text |-> reply, delivered |-> FALSE])
    /\ hpc' = "done"
    /\ UNCHANGED <<serveVars, username, ctorVars, text, parsed, reply, hout>>

CmdNext ==
    \/ MessageParse
    \/ NotACommand
    \/ UnknownVerb
    \/ HandlerReturns
    \/ HandlerRaises
    \/ SendOk
    \/ SendFails

CmdSpec == CmdInit /\ [][CmdNext]_vars

\* ------------------------------------------------------------- __init__
\* Before __init__ the attributes do not exist: any value stands for that.
CtorInit ==
    /\ offset \in {None, 0}
    /\ run \in BOOLEAN
    /\ kwargs \in SUBSET Keys
    /\ pc = "new"
    /\ updates = <<>>
    /\ updatesBound = FALSE
    /\ i = 1
    /\ j = 1
    /\ att = 0
    /\ attempts = 0
    /\ delays = <<>>
    /\ outcome = NoOutcome
    /\ reqOffset = None
    /\ slept = 0
    /\ paused = 0
    /\ calls = <<>>
    /\ nfetch = 0
    /\ exc = "none"
    /\ ret = <<>>
    /\ stopAt = 0
    /\ username = <<>>
    /\ argUsername \in {<<>>} \cup Handles
    /\ lookups = 0
    /\ text = <<>>
    /\ parsed = NoCommand
    /\ hpc = "idle"
    /\ reply = ""
    /\ hout = "none"
    /\ sends = <<>>

loopVars == <<kwargs, updates, updatesBound, i, j, outcome, reqOffset, slept,
              paused, calls, nfetch, stopAt>>

\* if username: self.username = username; ...; self.offset = None;
\* self.run = True
ConstructWithHandle ==
    /\ pc = "new"
    /\ argUsername # <<>>
    /\ username' = argUsername
    /\ offset' = None
    /\ run' = TRUE
    /\ pc' = "loop"
    /\ UNCHANGED <<loopVars, att, attempts, delays, exc, ret, ctorVars,
                   msgVars>>

\* else: self.bot_api('getMe') is called
ConstructLookup ==
    /\ pc = "new"
    /\ argUsername = <<>>
    /\ lookups' = lookups + 1
    /\ pc' = "getMe"
    /\ att' = 0
    /\ attempts' = 0
    /\ delays' = <<>>
    /\ ret' = <<>>
    /\ UNCHANGED <<loopVars, offset, run, exc, username, argUsername, msgVars>>

\* getMe answers ok: self.username = result['username']; self.offset = None;
\* self.run = True
GetMeOk ==
    /\ pc = "getMe"
    /\ \E h \in Handles :
          /\ ret' = <<Success([username |-> h])>>
          /\ username' = Success([username |-> h]).result.username
    /\ attempts' = attempts + 1
    /\ offset' = None
    /\ run' = TRUE
    /\ pc' = "loop"
    /\ UNCHANGED <<loopVars, att, delays, exc, ctorVars, msgVars>>

\* variant: the failure of the lookup is swallowed and the client is built
GetMeNotOk_Swallowed ==
    /\ pc = "getMe"
    /\ \E p \in Parameters : ret' = <<Failure(p)>>
    /\ attempts' = attempts + 1
    /\ offset' = None
    /\ run' = TRUE
    /\ pc' = "loop"
    /\ UNCHANGED <<loopVars, att, delays, exc, username, ctorVars, msgVars>>

\* getMe answers not ok: BotAPIFailed leaves the constructor
GetMeNotOk ==
    /\ pc = "getMe"
    /\ \E p \in Parameters : ret' = <<Failure(p)>>
    /\ attempts' = attempts + 1
    /\ pc' = "raised"
    /\ exc' = "BotAPIFailed"
    /\ UNCHANGED <<loopVars, offset, run, att, delays, username, ctorVars,
                   msgVars>>

\* the post or the decoding of getMe raises: retried by bot_api, then the
\* exception leaves the constructor
GetMeFail ==
    /\ pc = "getMe"
    /\ attempts' = attempts + 1
    /\ IF ShouldRetry(att) /\ att + 1 < Attempts
       THEN /\ delays' = Append(delays, Delay(att))
            /\ att' = att + 1
            /\ UNCHANGED <<pc, exc>>
       ELSE /\ delays' = IF ShouldRetry(att)
                         THEN Append(delays, Delay(att)) ELSE delays
            /\ pc' = "raised"
            /\ exc' = "Exception"
            /\ UNCHANGED att
    /\ UNCHANGED <<loopVars, offset, run, ret, username, ctorVars, msgVars>>

CtorNext ==
    \/ ConstructWithHandle
    \/ ConstructLookup
    \/ GetMeOk
    \/ GetMeNotOk
    \/ GetMeFail
    \/ ServeStep
    \/ CallbackRaises
    \/ RequestStop

CtorSpec == CtorInit /\ [][CtorNext]_vars

\* ------------------------------------------------------------ properties
UpdateIds(b) == {b[n].update_id : n \in 1..Len(b)}
MaxUpdateId(b) == CHOOSE m \in UpdateIds(b) : \A n \in UpdateIds(b) : m >= n

NonEmptyBatch == outcome.kind = "result" /\ outcome.result # <<>>
RateLimited == outcome.kind = "BotAPIFailed" /\ HasRetryAfter(outcome.parameters)
OtherFailure ==
    \/ outcome.kind = "Exception"
    \/ outcome.kind = "BotAPIFailed" /\ ~HasRetryAfter(outcome.parameters)

\* C1: once serve has received a non-empty batch, the cursor is one past the
\* highest update identifier of that batch, while the batch is dispatched,
\* after the dispatch and also when a callback raised.
C1_CursorAfterBatch ==
    (NonEmptyBatch /\ pc # "api_done")
        => offset = MaxUpdateId(outcome.result) + 1

\* a callback raised in a batch of two updates and the cursor stays advanced
C1_Witness ==
    /\ pc = "raised"
    /\ exc = "callback"
    /\ Len(outcome.result) = 2
    /\ offset = outcome.result[2].update_id + 1

\* C2: no step of serve makes the cursor smaller or unsets it (None is below
\* every identifier).
C2_CursorNeverDecreases == [][offset' >= offset]_vars

\* a fetch failed after the cursor had been set, and the cursor is kept
C2_Witness ==
    /\ pc = "loop"
    /\ outcome.kind = "Exception"
    /\ offset # None
    /\ nfetch >= 2

\* C3: after a fetch that failed with a retry_after hint of N, serve has slept
\* at least N before the next fetch and has not raised.
C3_RateLimitedSleepsNoRaise ==
    (RateLimited /\ pc # "api_done")
        => pc # "raised" /\ slept >= RetryAfter(outcome.parameters)

\* C4: bot_api propagates a transport exception only after 3 attempts.
C4_ThreeAttempts ==
    (pc = "api_done" /\ outcome.kind = "Exception") => attempts = 3

\* C5: after a fetch that failed without a retry_after hint serve is at the top
\* of the loop (or in the next fetch, or has returned because run is false)
\* with the cursor it fetched with.
C5_OtherFailureContinues ==
    (OtherFailure /\ pc # "api_done")
        => pc \in {"loop", "bot_api", "returned"} /\ offset = reqOffset

RECURSIVE Expected(_)
Expected(u) ==
    IF u = <<>> THEN <<>>
    ELSE (IF u[1].kind \in kwargs
          THEN <<[update_id |-> u[1].update_id, kind |-> u[1].kind]>>
          ELSE <<>>) \o Expected(Tail(u))

\* C6: when the dispatch of a batch is over, the callbacks invoked since the
\* batch was received are exactly one per registered payload field, in batch
\* order.
C6_BatchOrderExactlyOnce ==
    pc = "pause" => calls = Expected(updates)

\* C7: every invoked callback is registered and is not the identifier's, and a
\* step at the identifier or at an unregistered kind invokes nothing and
\* leaves serve in the dispatch.
C7_OnlyRegisteredKinds ==
    /\ [](\A n \in 1..Len(calls) :
            calls[n].kind \in kwargs /\ calls[n].kind # "update_id")
    /\ [][(pc = "dispatch" /\ (CurKey = "update_id" \/ CurKey \notin kwargs))
            => (calls' = calls /\ pc' \in {"dispatch", "pause"})]_vars

\* a batch with a registered and an unregistered kind was dispatched while a
\* callback is registered under update_id
C7_Witness ==
    /\ pc = "pause"
    /\ "update_id" \in kwargs
    /\ Len(updates) = 2
    /\ \E n \in 1..2 : updates[n].kind \notin kwargs
    /\ Len(calls) = 1

\* C8: after an empty batch nothing was called, the cursor is unchanged and
\* there was no pause; the pause precedes a fetch exactly when the previous
\* fetch returned a non-empty batch.
C8_PauseOnlyAfterNonEmptyBatch ==
    /\ (outcome = Returned(<<>>) /\ pc # "api_done")
          => calls = <<>> /\ paused = 0 /\ offset = reqOffset
    /\ (pc = "bot_api" /\ outcome.kind # "none")
          => (paused > 0 <=> NonEmptyBatch)

C10_BackoffDelays ==
    (pc = "api_done" /\ outcome.kind = "Exception")
        => delays = <<Delay(0), Delay(1)>>

\* C11: a bot_api call is still attempting only while no response was decoded
\* (a decoded response, ok or not, ends the call at once); a response that is
\* not ok ends it with BotAPIFailed carrying the response's description,
\* error code and parameters; an ok response ends it with the result as sent.
C11_RemoteCallErrorNotRetried ==
    /\ pc = "bot_api" => ret = <<>>
    /\ (pc = "api_done" /\ ret # <<>> /\ ~ret[1].ok)
          => /\ outcome.kind = "BotAPIFailed"
             /\ outcome.description = ret[1].description
             /\ outcome.error_code = ret[1].error_code
             /\ outcome.parameters = ret[1].parameters
    /\ (pc = "api_done" /\ ret # <<>> /\ ret[1].ok)
          => outcome.kind = "result" /\ outcome.result = ret[1].result
    /\ (pc = "api_done" /\ ret = <<>>) => outcome.kind = "Exception"

\* a response that is not ok and carries parameters arrived at the second
\* attempt and ended the call
C11_Witness ==
    /\ pc = "api_done"
    /\ ret # <<>>
    /\ ~ret[1].ok
    /\ ret[1].parameters # {}
    /\ attempts = 2

\* --------------------------------------------------- parse_cmd properties
Range(s) == {s[n] : n \in 1..Len(s)}

\* a non-empty token without marker, handle separator or whitespace
IsWord(s) == s # <<>> /\ Range(s) \cap (Whitespace \cup {"/", "@"}) = {}

\* what follows the first space of s (nothing when s has no space)
AfterFirstSpace(s) ==
    IF Positions(s, " ") = {} THEN <<>>
    ELSE SubSeq(s, First(Positions(s, " ")) + 1, Len(s))

\* what precedes the first space of s
HeadOf(s) ==
    IF Positions(s, " ") = {} THEN s
    ELSE SubSeq(s, 1, First(Positions(s, " ")) - 1)

Parsed == hpc # "idle"

\* the text is /<verb>@<h>, alone or followed by a space and a remainder
HasHandleForm ==
    LET h == HeadOf(text)
        a == First(Positions(h, "@"))
    IN  /\ Len(h) >= 4
        /\ h[1] = "/"
        /\ Cardinality(Positions(h, "@")) = 1
        /\ IsWord(SubSeq(h, 2, a - 1))
        /\ IsWord(SubSeq(h, a + 1, Len(h)))
VerbOfForm == LET h == HeadOf(text)
              IN  SubSeq(h, 2, First(Positions(h, "@")) - 1)
HandleOfForm == LET h == HeadOf(text)
                IN  SubSeq(h, First(Positions(h, "@")) + 1, Len(h))

\* C12: for a text /<verb>@<h>, alone or followed by a space and a remainder,
\* parse_cmd returns (None, None) when h is not the client's handle, and the
\* verb with the remainder (as trimmed and with its non-breaking spaces
\* turned into spaces) when h is the client's handle.
C12_HandleSuffix ==
    (Parsed /\ HasHandleForm)
        => parsed = IF HandleOfForm # username THEN NoCommand
                    ELSE Command(VerbOfForm,
                                 Replace(RStrip(AfterFirstSpace(text))))

\* a command addressed to the client's handle with a remainder, and one
\* addressed to another handle
C12_Witness ==
    /\ Parsed
    /\ HasHandleForm
    /\ \/ HandleOfForm = username /\ ~parsed.none /\ parsed.expr # <<>>
       \/ HandleOfForm # username /\ parsed.none /\ username = <<"a", "b">>
    /\ Len(text) = MaxTextLen

\* the trimmed text is /<verb>, alone or followed by a space and a rest
HasVerbForm ==
    LET h == HeadOf(Strip(text))
    IN  /\ Len(h) >= 2
        /\ h[1] = "/"
        /\ IsWord(Tail(h))

\* C13 as stated: for a valid /<verb> <rest>, the result is the verb and
\* exactly what follows the first space of the trimmed text.
C13_RestIsExactSubstring ==
    (Parsed /\ HasVerbForm)
        => parsed = Command(Tail(HeadOf(Strip(text))),
                            AfterFirstSpace(Strip(text)))

\* C13 amended: the rest is what follows the first space of the trimmed text
\* in which every non-breaking space has become a space.
C13_RestOfNormalisedText ==
    (Parsed /\ HasVerbForm)
        => parsed = Command(Tail(HeadOf(Strip(text))),
                            AfterFirstSpace(Replace(Strip(text))))

\* a rest with an inner space and an inner non-breaking space
C13_Witness ==
    /\ Parsed
    /\ HasVerbForm
    /\ " " \in Range(parsed.expr)
    /\ NBSP \in Range(AfterFirstSpace(Strip(text)))

\* C14 as stated: a text that does not start with the marker gives
\* (None, None).
C14_NoMarkerNoCommand ==
    (Parsed /\ (text = <<>> \/ text[1] # "/")) => parsed = NoCommand

\* C14 amended: a text whose trimmed form does not start with the marker
\* gives (None, None); the empty and the all-whitespace text are such texts.
C14_NoMarkerAfterTrimNoCommand ==
    (Parsed /\ (Strip(text) = <<>> \/ Strip(text)[1] # "/"))
        => parsed = NoCommand

\* a text of a word and more that is not a command
C14_Witness ==
    /\ Parsed
    /\ Len(text) >= 2
    /\ Strip(text) # <<>>
    /\ Strip(text)[1] = "a"
    /\ "/" \in Range(text)
    /\ parsed = NoCommand

\* C20 as stated: a returned verb is non-empty and has no marker, no '@' and
\* no whitespace; '/' and '/@<handle>' give (None, None).
C20_VerbIsAlphanumeric ==
    /\ (Parsed /\ ~parsed.none)
          => /\ Len(parsed.cmd) >= 1
             /\ Range(parsed.cmd) \cap (Whitespace \cup {"/", "@"}) = {}
    /\ (Parsed /\ text \in {<<"/">>, <<"/", "@">> \o username})
          => parsed = NoCommand

\* C20 amended: a returned verb is non-empty and has no space and no
\* non-breaking space; '/' and '/@<handle>' give (None, None).
C20_VerbIsNonEmptyWithoutSpace ==
    /\ (Parsed /\ ~parsed.none)
          => /\ Len(parsed.cmd) >= 1
             /\ Range(parsed.cmd) \cap {" ", NBSP} = {}
    /\ (Parsed /\ text \in {<<"/">>, <<"/", "@">> \o username})
          => parsed = NoCommand

\* a verb that contains the marker and the handle separator was returned
C20_Witness ==
    /\ Parsed
    /\ ~parsed.none
    /\ {"/", "@"} \subseteq Range(parsed.cmd)

\* C16: no exception leaves message_handler and at most one message is sent;
\* when it is over, a handler that raised has had the fallback text sent, and
\* nothing was sent for a falsy result, for a text that is not a command and
\* for a verb that is not in cmds.
C16_HandlerFailuresContained ==
    /\ hpc # "escaped"
    /\ Len(sends) <= 1
    /\ hpc = "done" =>
          /\ hout = "raised" => Len(sends) = 1 /\ sends[1].text = Fallback
          /\ (hout = "returned" /\ reply = "") => sends = <<>>
          /\ (parsed.none \/ parsed.cmd \notin cmds)
                => sends = <<>> /\ hout = "none"

\* the handler of a known verb raised and sending the fallback failed too
C16_Witness ==
    /\ hpc = "done"
    /\ hout = "raised"
    /\ Len(sends) = 1
    /\ ~sends[1].delivered

Constructing == pc \in {"new", "getMe"}
CtorFailed == pc = "raised" /\ exc \in {"BotAPIFailed", "Exception"}

\* C15: with a handle supplied the constructor makes no remote call and does
\* not fail; with the handle omitted it makes one getMe call and fails exactly
\* with that call's error (BotAPIFailed for a response that is not ok, the
\* transport exception when no response was decoded); the step that ends a
\* construction successfully leaves the cursor unset, run true and a handle.
C15_Construction ==
    /\ [](/\ argUsername # <<>>
             => lookups = 0 /\ pc # "getMe" /\ ~CtorFailed
          /\ (argUsername # <<>> /\ pc # "new") => username = argUsername
          /\ (argUsername = <<>> /\ pc # "new") => lookups = 1
          /\ (pc = "raised" /\ exc = "BotAPIFailed")
             => ret # <<>> /\ ~ret[1].ok
          /\ (pc = "raised" /\ exc = "Exception") => ret = <<>>)
    /\ [][/\ (Constructing /\ ~Constructing' /\ ~CtorFailed')
               => /\ offset' = None
                  /\ run' = TRUE
                  /\ username' # <<>>
                  /\ pc' = "loop"
                  /\ argUsername = <<>> => (ret' # <<>> /\ ret'[1].ok)
          /\ (pc = "getMe" /\ ret' # <<>> /\ ~ret'[1].ok) => CtorFailed'
         ]_vars

\* the handle was omitted and getMe failed at the transport after its retry
C15_Witness ==
    /\ CtorFailed
    /\ exc = "Exception"
    /\ argUsername = <<>>
    /\ lookups = 1
    /\ attempts = 2

Invoked == Len(calls') > Len(calls)

\* C17: a callback is invoked only while the latest fetch is one that
\* returned a non-empty batch, for an update of that batch, and no update is
\* given to the same callback twice after the fetch that delivered it.
C17_DispatchOnlyAfterSuccessfulFetch ==
    /\ [][Invoked
            => /\ NonEmptyBatch
               /\ calls'[Len(calls')].update_id \in UpdateIds(outcome.result)
         ]_vars
    /\ [](\A m, n \in 1..Len(calls) : calls[m] = calls[n] => m = n)

\* C18: when a callback is invoked the cursor is already above every
\* identifier of the batch being dispatched; it stays so during the dispatch
\* and after a callback raised; and a later fetch of serve asks for an offset
\* above every identifier of the batch it has dispatched.
C18_CursorAdvancedBeforeDispatch ==
    /\ [][Invoked => \A n \in UpdateIds(updates) : offset > n]_vars
    /\ []((pc \in {"dispatch", "pause"} \/ (pc = "raised" /\ exc = "callback"))
            => \A n \in UpdateIds(updates) : offset > n)
    /\ []((pc = "bot_api" /\ updatesBound)
            => \A n \in UpdateIds(updates) : reqOffset > n)

\* the callback of the first of two updates raised and the cursor is above
\* the second update
C18_Witness ==
    /\ pc = "raised"
    /\ exc = "callback"
    /\ Len(updates) = 2
    /\ Len(calls) = 1
    /\ calls[1].update_id = updates[1].update_id
    /\ offset > updates[2].update_id

\* C19: after a callback set run to False in a received batch the whole
\* batch is still dispatched; a step of the dispatch with run false stays in
\* the dispatch or ends it; and getUpdates is issued only from a loop test
\* that found run true.
C19_CooperativeCancellation ==
    /\ []((pc = "pause" /\ NonEmptyBatch /\ stopAt > 0)
            => calls = Expected(updates))
    /\ [][(pc = "dispatch" /\ ~run)
            => pc' \in {"dispatch", "pause", "raised"}]_vars
    /\ [][(pc' = "bot_api" /\ pc # "bot_api") => (pc = "loop" /\ run)]_vars
    /\ [][nfetch' # nfetch => run]_vars

\* the first callback of a batch set run to False, the second update was
\* dispatched as well, and serve returned without another fetch
C19_Witness ==
    /\ pc = "returned"
    /\ NonEmptyBatch
    /\ stopAt = 1
    /\ Len(updates) = 2
    /\ calls = Expected(updates)
    /\ Len(calls) = 2
    /\ nfetch = 1

====
